---- MODULE Spec2Model ----
(***************************************************************************)
(* A model of src/src/utils/formActions.tsx: the simulated server actions, *)
(* the useActionState fallback hook that dispatches them, and the field    *)
(* validator validateFormData.                                             *)
(*                                                                         *)
(* JavaScript values are encoded as records whose only field names the    *)
(* type (typeof): [str |-> "ab"], [num |-> 0], [bool |-> FALSE], and       *)
(* [undef |-> TRUE] for undefined.  A nullable (T | null) is a sequence of *)
(* length at most one: <<>> is null, <<x>> is the value x.  A FormData or  *)
(* a Result object is a function from its own property names to values.   *)
(***************************************************************************)
EXTENDS Integers, Sequences, FiniteSets, TLC

VARIABLES
    hookAction,   \* the action function useActionState was called with
    state,        \* useState value held by useActionState
    isPending,    \* useTransition's isPending flag
    timers,       \* outstanding setTimeout callbacks of simulateApiCall, oldest first
    now,          \* Date.now(), milliseconds
    nDispatched,  \* history: number of dispatch calls so far
    nResolved,    \* history: number of dispatches whose new state was applied
    lastCall,     \* history: the action call applied last (<<>> before the first)
    overlapped,   \* history: some dispatch was issued while another was unresolved
    settled,      \* history: dispatches seen with pending = false and their own result
    vSchema,      \* validateFormData: Object.entries(schema), <<field, rules>> records
    vInput,       \* validateFormData: the formData argument
    vIdx,         \* validateFormData: index of the schema entry the loop visits next
    vErrors,      \* validateFormData: the errors object built so far
    vTrace,       \* history: per visited field, the rules evaluated and their verdicts
    vResult,      \* validateFormData: the returned object (<<>> until it returns)
    vStart,       \* history: the input and the schema as the running call received them
    vSeen,        \* history: <<input, result>> of the calls that returned, oldest first
    vCalls,       \* history: number of validateFormData calls started
    posts,           \* PostCreationForm: the posts state, the list given to useOptimisticForm
    optimisticState, \* useOptimistic: the list it returns, the one displayed
    revertTimers,    \* outstanding setTimeout callbacks of addOptimistic, oldest first
    oSubs,           \* history: per submitWithOptimistic call, its item and the reverts before it
    oOutcomes,       \* history: per applied action call, TRUE when simulateApiCall threw
    oFired,          \* history: number of addOptimistic timers that fired
    oLastRevert,     \* history: the addOptimistic timer that fired last (<<>> before the first)
    sReturn,         \* history: what the last submitValidatedForm call returned (<<>> before)
    sResets,         \* history: the numbers of the dispatches made by reset()
    showSuccess,     \* UserProfileForm: the showSuccess state (the snackbar is open)
    sShownFor,       \* history: the number of the dispatch whose submission opened the snackbar
    appState,        \* AppProvider: the state of useReducer(appReducer, initialState)
    localSettings,   \* SettingsForm: the localSettings state
    aLast,           \* history: the reducer action applied last and the state it was applied to
    cPrefsBefore,    \* history: per settings submission, the context's preferences before it
    cacheMap,        \* cache: the Map of one wrapped function, key to result
    cCalls,          \* history: the calls of the wrapped function, oldest first
    cNextId,         \* history: the identity the next promise made by the inner function gets
    pPromise,        \* usePromise: the promise passed to the hook, named by its userId
    pPromises,       \* the promises fetchUserData has made: userId to status, due time, value
    pMounted,        \* the component that calls usePromise has been committed
    pState,          \* usePromise: its useState value (<<>> while the component is not mounted)
    pSubscribed,     \* usePromise: the promises its effect has attached then/catch to
    pOutput,         \* what the last render of the hook did: suspended, returned or threw
    pSwitches,       \* history: how often the caller passed another promise
    rtNow,           \* Date.now() of the real-time component, milliseconds
    rtInterval,      \* useRealTimeData: the interval argument of the last render
    rtMounted,       \* the component that calls useRealTimeData is mounted
    rtTimer,         \* useRealTimeData: the interval timer, by its next due time (<<>> if none)
    rtPending,       \* the refresh callbacks waiting on mockApiDelay, by due time, oldest first
    rtData,          \* useRealTimeData: the data state, which the hook returns
    rtFrozen         \* history: the data when the hook was paused or unmounted (<<>> while live)

simVars == <<hookAction, state, isPending, timers, now,
             nDispatched, nResolved, lastCall, overlapped, settled>>

valVars == <<vSchema, vInput, vIdx, vErrors, vTrace, vResult, vStart, vSeen, vCalls>>

optVars == <<posts, optimisticState, revertTimers, oSubs, oOutcomes, oFired, oLastRevert>>

formVars == <<sResets, showSuccess, sShownFor>>

\* the variables of the components modelled further down
ctxVars == <<appState, localSettings, aLast, cPrefsBefore>>

cacheVars == <<cacheMap, cCalls, cNextId>>

\* the variables of src/unnamed/part_001 (cache, usePromise, useRealTimeData)
promVars == <<pPromise, pPromises, pMounted, pState, pSubscribed, pOutput, pSwitches>>

rtVars == <<rtNow, rtInterval, rtMounted, rtTimer, rtPending, rtData, rtFrozen>>

hookVars == <<cacheVars, promVars, rtVars>>

restVars == <<formVars, ctxVars, hookVars>>

vars == <<simVars, valVars, optVars, sReturn, restVars>>

\* the profile form is not mounted
FormIdle == sResets = {} /\ showSuccess = FALSE /\ sShownFor = 0

\* no provider is mounted
CtxIdle == appState = <<>> /\ localSettings = <<>> /\ aLast = <<>> /\ cPrefsBefore = <<>>

\* the wrapped function has not been called
CacheIdle == cacheMap = <<>> /\ cCalls = <<>> /\ cNextId = 1

\* no component uses usePromise
PromIdle ==
    /\ pPromise = "" /\ pPromises = <<>> /\ pMounted = FALSE /\ pState = <<>>
    /\ pSubscribed = {} /\ pOutput = <<>> /\ pSwitches = 0

\* no component uses useRealTimeData
RtIdle ==
    /\ rtNow = 0 /\ rtInterval = 0 /\ rtMounted = FALSE /\ rtTimer = <<>>
    /\ rtPending = <<>> /\ rtData = <<>> /\ rtFrozen = <<>>

HookIdle == CacheIdle /\ PromIdle /\ RtIdle

RestIdle == FormIdle /\ CtxIdle /\ HookIdle

-----------------------------------------------------------------------------
(* Bounds of the model *)

MaxDispatch == 2      \* dispatch calls explored on one hook instance
MaxTicks == 6         \* clock ticks explored
TickMs == 400         \* milliseconds per clock tick

MaxFields == 2

\* validateFormData calls made one after another with the same schema object
MaxCalls == 3        \* fields declared by a validation schema

MaxClock == MaxTicks * TickMs

-----------------------------------------------------------------------------
(* JavaScript values *)

Str(s) == [str |-> s]
Num(n) == [num |-> n]
Bool(b) == [bool |-> b]
Undefined == [undef |-> TRUE]

\* a method of Object.prototype, and Object.prototype itself
Func(name) == [func |-> name]
ObjectPrototype == [object |-> "Object.prototype"]

NULL == <<>>
Some(x) == <<x>>
Get(opt) == opt[1]

typeof(v) ==
    IF DOMAIN v = {"str"} THEN "string"
    ELSE IF DOMAIN v = {"num"} THEN "number"
    ELSE IF DOMAIN v = {"bool"} THEN "boolean"
    ELSE IF DOMAIN v = {"func"} THEN "function"
    ELSE IF DOMAIN v = {"object"} THEN "object"
    ELSE "undefined"

\* the methods an object literal inherits from Object.prototype
PrototypeMethods ==
    {"constructor", "toString", "toLocaleString", "valueOf", "hasOwnProperty",
     "isPrototypeOf", "propertyIsEnumerable", "__defineGetter__",
     "__defineSetter__", "__lookupGetter__", "__lookupSetter__"}

\* formData[field] for a plain object with the own properties obj: an own
\* property, else the property inherited from Object.prototype (a method, or
\* Object.prototype itself for __proto__), else undefined
Prop(obj, field) ==
    IF field \in DOMAIN obj THEN obj[field]
    ELSE IF field \in PrototypeMethods THEN Func(field)
    ELSE IF field = "__proto__" THEN ObjectPrototype
    ELSE Undefined

EmptyObject == [k \in {} |-> Undefined]

Pad2(n) == IF n < 10 THEN "0" \o ToString(n) ELSE ToString(n)

Pad3(n) ==
    IF n < 10 THEN "00" \o ToString(n)
    ELSE IF n < 100 THEN "0" \o ToString(n)
    ELSE ToString(n)

\* new Date(ms).toISOString(), for instants within the first minute of the epoch
toISOString(ms) ==
    "1970-01-01T00:00:" \o Pad2(ms \div 1000) \o "." \o Pad3(ms % 1000) \o "Z"

-----------------------------------------------------------------------------
(* simulateApiCall and the three action functions.  `fail` is the outcome  *)
(* of Math.random() < 0.1 and `t` the clock when the delay timer fires.    *)

updateProfileDelay == 1200
createPostDelay == 800
updatePreferencesDelay == 600

\* mutant: the generated id is written after the spread, { ...data, id, createdAt }
ResultData_idLast(data, t) ==
    [k \in ({"id"} \cup DOMAIN data) \cup {"createdAt"} |->
        IF k = "createdAt" THEN Str(toISOString(t))
        ELSE IF k = "id" THEN Str(ToString(t))
        ELSE data[k]]

\* { id: Date.now().toString(), ...data, createdAt: new Date().toISOString() }
ResultData(data, t) ==
    [k \in ({"id"} \cup DOMAIN data) \cup {"createdAt"} |->
        IF k = "createdAt" THEN Str(toISOString(t))
        ELSE IF k \in DOMAIN data THEN data[k]
        ELSE Str(ToString(t))]

\* mutant: the failure is thrown as a bare string instead of an Error
simulateApiCall_throwsString(endpoint, data, fail, t) ==
    IF fail
    THEN [threw |-> TRUE, isError |-> FALSE,
          message |-> "API Error: Failed to " \o endpoint]
    ELSE [threw |-> FALSE,
          value |-> [success |-> TRUE,
                     data |-> ResultData(data, t),
                     timestamp |-> toISOString(t)]]

simulateApiCall(endpoint, data, fail, t) ==
    IF fail
    THEN [threw |-> TRUE, isError |-> TRUE,
          message |-> "API Error: Failed to " \o endpoint]
    ELSE [threw |-> FALSE,
          value |-> [success |-> TRUE,
                     data |-> ResultData(data, t),
                     timestamp |-> toISOString(t)]]

\* mutant: a failure clears the data instead of keeping prevState.data
updateUserProfileAction_clearsData(prevState, formData, fail, t) ==
    LET result == simulateApiCall("updateProfile", formData, fail, t) IN
    IF ~result.threw
    THEN [data |-> Some(result.value.data),
          error |-> NULL,
          pending |-> FALSE,
          lastAction |-> Some("updateProfile")]
    ELSE [data |-> NULL,
          error |-> Some(IF result.isError THEN result.message
                         ELSE "Unknown error occurred"),
          pending |-> FALSE,
          lastAction |-> Some("updateProfile")]

updateUserProfileAction(prevState, formData, fail, t) ==
    LET result == simulateApiCall("updateProfile", formData, fail, t) IN
    IF ~result.threw
    THEN [data |-> Some(result.value.data),
          error |-> NULL,
          pending |-> FALSE,
          lastAction |-> Some("updateProfile")]
    ELSE [data |-> prevState.data,
          error |-> Some(IF result.isError THEN result.message
                         ELSE "Unknown error occurred"),
          pending |-> FALSE,
          lastAction |-> Some("updateProfile")]

\* mutant: a success keeps the error of the previous state
createPostAction_keepsError(prevState, formData, fail, t) ==
    LET result == simulateApiCall("createPost", formData, fail, t) IN
    IF ~result.threw
    THEN [data |-> Some(result.value.data),
          error |-> prevState.error,
          pending |-> FALSE,
          lastAction |-> Some("createPost")]
    ELSE [data |-> prevState.data,
          error |-> Some(IF result.isError THEN result.message
                         ELSE "Failed to create post"),
          pending |-> FALSE,
          lastAction |-> Some("createPost")]

createPostAction(prevState, formData, fail, t) ==
    LET result == simulateApiCall("createPost", formData, fail, t) IN
    IF ~result.threw
    THEN [data |-> Some(result.value.data),
          error |-> NULL,
          pending |-> FALSE,
          lastAction |-> Some("createPost")]
    ELSE [data |-> prevState.data,
          error |-> Some(IF result.isError THEN result.message
                         ELSE "Failed to create post"),
          pending |-> FALSE,
          lastAction |-> Some("createPost")]

updatePreferencesAction(prevState, formData, fail, t) ==
    LET result == simulateApiCall("updatePreferences", formData, fail, t) IN
    IF ~result.threw
    THEN [data |-> Some(result.value.data),
          error |-> NULL,
          pending |-> FALSE,
          lastAction |-> Some("updatePreferences")]
    ELSE [data |-> prevState.data,
          error |-> Some(IF result.isError THEN result.message
                         ELSE "Failed to update preferences"),
          pending |-> FALSE,
          lastAction |-> Some("updatePreferences")]

ActionNames == {"updateProfile", "createPost", "updatePreferences"}

\* action(state, formData) in useActionState.dispatch, for the action named a
CallAction(a, prevState, formData, fail, t) ==
    IF a = "updateProfile" THEN updateUserProfileAction(prevState, formData, fail, t)
    ELSE IF a = "createPost" THEN createPostAction(prevState, formData, fail, t)
    ELSE updatePreferencesAction(prevState, formData, fail, t)

\* the third argument each action passes to simulateApiCall
ActionDelay(a) ==
    IF a = "updateProfile" THEN updateProfileDelay
    ELSE IF a = "createPost" THEN createPostDelay
    ELSE updatePreferencesDelay

-----------------------------------------------------------------------------
(* useActionState / useFormAction *)

\* the default initialState of useFormAction
initialState == [data |-> NULL, error |-> NULL, pending |-> FALSE, lastAction |-> NULL]

\* the form data the callers submit
FormInputs ==
    { EmptyObject,
      [name |-> Str("Ann")],
      [id |-> Str("7"), createdAt |-> Str("soon"), age |-> Num(0)] }

\* setState(prev => ({ ...prev, pending: true }))
MarkPending(prev) == [prev EXCEPT !.pending = TRUE]

\* mutant: the new state is merged into the current one, keeping a current error
ApplyResult_merge(prev, newState) ==
    [newState EXCEPT !.error = IF newState.error = NULL THEN prev.error ELSE newState.error]

\* mutant: the state the action returned is never stored
ApplyResult_dropped(prev, newState) == [prev EXCEPT !.pending = FALSE]

\* setState(newState)
ApplyResult(prev, newState) == newState

\* mutant: the hook returns its state without overriding pending by isPending
Observed_rawState == state

\* what the hook returns to its caller: { ...state, pending: isPending }
Observed == [state EXCEPT !.pending = isPending]

Init ==
    /\ hookAction \in ActionNames
    /\ state = initialState
    /\ isPending = FALSE
    /\ timers = <<>>
    /\ now = 0
    /\ nDispatched = 0
    /\ nResolved = 0
    /\ lastCall = <<>>
    /\ overlapped = FALSE
    /\ settled = {}
    /\ vSchema = <<>>
    /\ vInput = EmptyObject
    /\ vIdx = 1
    /\ vErrors = EmptyObject
    /\ vTrace = <<>>
    /\ vResult = NULL
    /\ vStart = [input |-> vInput, schema |-> vSchema]
    /\ vSeen = <<>>
    /\ vCalls = 1
    /\ posts = <<>>
    /\ optimisticState = <<>>
    /\ revertTimers = <<>>
    /\ oSubs = <<>>
    /\ oOutcomes = <<>>
    /\ oFired = 0
    /\ oLastRevert = NULL
    /\ sReturn = NULL
    /\ RestIdle

\* time passes
Tick ==
    /\ now + TickMs <= MaxClock
    /\ now' = now + TickMs
    /\ UNCHANGED <<hookAction, state, isPending, timers,
                   nDispatched, nResolved, lastCall, overlapped, settled>>
    /\ UNCHANGED <<valVars, optVars, sReturn, restVars>>

\* dispatch(formData): startTransition raises isPending, the state is marked
\* pending and the action is called with `state` as the closure of the current
\* render holds it (not with the updater's prev); simulateApiCall arms its
\* delay timer before the first await.  One hook instance has one action and
\* so one delay: its timers come due in the order they were armed.
DispatchStep(formData) ==
    /\ nDispatched < MaxDispatch
    /\ now + ActionDelay(hookAction) <= MaxClock
    /\ isPending' = TRUE
    /\ state' = MarkPending(state)
    /\ timers' = Append(timers, [due |-> now + ActionDelay(hookAction),
                                 n |-> nDispatched + 1,
                                 prevState |-> state,
                                 formData |-> formData])
    /\ nDispatched' = nDispatched + 1
    /\ overlapped' = (overlapped \/ timers # <<>>)
    /\ UNCHANGED <<hookAction, now, nResolved, lastCall, settled>>

\* the caller of useActionState dispatches a form
Dispatch ==
    \E formData \in FormInputs :
        /\ DispatchStep(formData)
        /\ UNCHANGED <<valVars, optVars, sReturn, restVars>>

\* timers run in the order of their due times, and of their arming when the
\* due times are equal; a is a delay timer of simulateApiCall, b a timer of
\* addOptimistic, which submitWithOptimistic arms before it dispatches
ActionTimerFirst(a, b) == a.due < b.due \/ (a.due = b.due /\ a.n < b.n)

\* The oldest delay timer fires: simulateApiCall returns or throws, the action
\* returns its new state and dispatch applies it, all in the microtasks of the
\* timer's task.  isPending stays true while another async action of the
\* transition is still running (React 19 async transitions).
Resolve ==
    \E fail \in BOOLEAN :
        /\ timers # <<>>
        /\ Head(timers).due <= now
        /\ revertTimers # <<>> => ActionTimerFirst(Head(timers), Head(revertTimers))
        /\ LET call == Head(timers)
               newState == CallAction(hookAction, call.prevState, call.formData, fail, now)
           IN /\ state' = ApplyResult(state, newState)
              /\ lastCall' = Some([n |-> call.n, fail |-> fail, at |-> now,
                                   prevState |-> call.prevState,
                                   formData |-> call.formData,
                                   result |-> newState])
              /\ settled' = IF Tail(timers) = <<>> THEN settled \cup {call.n} ELSE settled
        /\ timers' = Tail(timers)
        /\ isPending' = (Tail(timers) # <<>>)
        /\ nResolved' = nResolved + 1
        /\ oOutcomes' = Append(oOutcomes, fail)
        /\ UNCHANGED <<hookAction, now, nDispatched, overlapped>>
        /\ UNCHANGED <<posts, optimisticState, revertTimers, oSubs, oFired, oLastRevert>>
        /\ UNCHANGED <<valVars, sReturn, restVars>>

Next == Tick \/ Dispatch \/ Resolve

Spec == Init /\ [][Next]_vars

\* the delay timers of the event loop fire and time passes
FairSpec == Spec /\ WF_vars(Tick) /\ WF_vars(Resolve)

TypeOK ==
    /\ hookAction \in ActionNames
    /\ isPending \in BOOLEAN
    /\ now \in 0..MaxClock
    /\ nDispatched \in 0..MaxDispatch
    /\ nResolved \in 0..nDispatched
    /\ Len(timers) = nDispatched - nResolved

-----------------------------------------------------------------------------
(* validateFormData *)

\* JavaScript truthiness of a form value
Truthy(v) ==
    IF typeof(v) = "string" THEN v.str # ""
    ELSE IF typeof(v) = "number" THEN v.num # 0
    ELSE IF typeof(v) = "boolean" THEN v.bool
    ELSE typeof(v) \in {"function", "object"}

Char(s, i) == SubSeq(s, i, i)

\* A string of the program is a sequence of UTF-16 code units. The strings of
\* this module are written with the characters of ASCII; the pattern is
\* defined on code units, so that it is defined for every string of the
\* program, and CodeUnits takes a string of the module to its code units.

\* the characters U+0020 to U+005F and U+0061 to U+007E, in the order of
\* their codes (a string of the module cannot hold U+0060)
PrintableLow ==
    " !\"#$%&'()*+,-./0123456789:;<=>?@ABCDEFGHIJKLMNOPQRSTUVWXYZ[\\]^_"
PrintableHigh ==
    "abcdefghijklmnopqrstuvwxyz{|}~"

\* s.charCodeAt(i - 1), for the characters of ASCII a string here can hold
charCodeAt(s, i) ==
    LET c == Char(s, i)
    IN IF c = "\t" THEN 9
       ELSE IF c = "\n" THEN 10
       ELSE IF c = "" THEN 11
       ELSE IF c = "\f" THEN 12
       ELSE IF c = "\r" THEN 13
       ELSE IF \E n \in 1..Len(PrintableLow) : Char(PrintableLow, n) = c
       THEN 31 + (CHOOSE n \in 1..Len(PrintableLow) : Char(PrintableLow, n) = c)
       ELSE 96 + (CHOOSE n \in 1..Len(PrintableHigh) : Char(PrintableHigh, n) = c)

\* the code units of s
CodeUnits(s) == [i \in 1..Len(s) |-> charCodeAt(s, i)]

\* the code units of the class \s: tab, line feed, vertical tab, form feed,
\* carriage return, space, U+00A0, U+1680, U+2000 to U+200A, U+2028, U+2029,
\* U+202F, U+205F, U+3000 and U+FEFF
WhiteSpace ==
    (9..13) \cup {32, 160, 5760} \cup (8192..8202)
        \cup {8232, 8233, 8239, 8287, 12288, 65279}

\* the code units of "@" and of "."
At == 64
Dot == 46

\* [^\s@]+ matches the whole of the code units u
NoSpaceNoAt(u) ==
    /\ Len(u) > 0
    /\ \A i \in 1..Len(u) : u[i] \notin WhiteSpace \cup {At}

\* pattern.test(value) for the pattern of the profile form,
\* /^[^\s@]+@[^\s@]+\.[^\s@]+$/, on the code units u of value
TestEmail(u) ==
    \E i, j \in 1..Len(u) :
        /\ i < j
        /\ u[i] = At
        /\ u[j] = Dot
        /\ NoSpaceNoAt(SubSeq(u, 1, i - 1))
        /\ NoSpaceNoAt(SubSeq(u, i + 1, j - 1))
        /\ NoSpaceNoAt(SubSeq(u, j + 1, Len(u)))

\* a RegExp object: its source, its g flag and its lastIndex property
RegExp(source, global) == [source |-> source, global |-> global, lastIndex |-> 0]

\* the pattern of the profile form, and the same pattern written with the g flag
EmailPattern == RegExp("email", FALSE)
EmailPatternGlobal == RegExp("email", TRUE)

\* pattern.test(s): a pattern with the g flag starts matching at lastIndex, and
\* ^ matches at index 0 only
Test(pattern, s) ==
    /\ pattern.source = "email"
    /\ TestEmail(CodeUnits(s))
    /\ pattern.global => pattern.lastIndex = 0

\* the RegExp object after pattern.test(s): with the g flag lastIndex is set to
\* the end of the match, or to 0 when there is none
AfterTest(pattern, s) ==
    IF pattern.global
    THEN [pattern EXCEPT !.lastIndex = IF Test(pattern, s) THEN Len(s) ELSE 0]
    ELSE pattern

\* the custom predicates handed to the validator: rules.custom(value)
Customs == {"accept", "reject", "emptyMessage", "nonZero"}

CallCustom(c, value) ==
    IF c = "reject" THEN Some("rejected by custom rule")
    ELSE IF c = "emptyMessage" THEN Some("")
    ELSE IF c = "nonZero" /\ value = Num(0) THEN Some("must not be zero")
    ELSE NULL

Verdict(rule, failed) == [rule |-> rule, failed |-> failed]

\* errors[field] = message, for an object literal errors and a string message:
\* the assignment to __proto__ calls the setter of Object.prototype, which
\* ignores a string and creates no property; any other name becomes an own
\* property
SetProp(obj, field, value) ==
    IF field = "__proto__" THEN obj
    ELSE [k \in DOMAIN obj \cup {field} |-> IF k = field THEN value ELSE obj[k]]

\* One iteration of the loop over Object.entries(schema): the error recorded
\* for the field (null when none) and, in order, the rules whose condition on
\* the value was evaluated, each with its verdict.
CheckField(field, rules, value) ==
    LET required == rules.required # NULL /\ Get(rules.required)
        isString == Truthy(value) /\ typeof(value) = "string"
        minLength == isString /\ rules.minLength # NULL /\ Get(rules.minLength) # 0
        maxLength == isString /\ rules.maxLength # NULL /\ Get(rules.maxLength) # 0
        pattern == isString /\ rules.pattern # NULL
        custom == rules.custom # NULL
        t1 == IF required THEN <<Verdict("required", FALSE)>> ELSE <<>>
        t2 == IF minLength THEN Append(t1, Verdict("minLength", FALSE)) ELSE t1
        t3 == IF maxLength THEN Append(t2, Verdict("maxLength", FALSE)) ELSE t2
        t4 == IF pattern THEN Append(t3, Verdict("pattern", FALSE)) ELSE t3
        customError == CallCustom(Get(rules.custom), value)
    IN
    IF required /\ (~Truthy(value) \/ value = Str(""))
    THEN [error |-> Some(field \o " is required"),
          trace |-> <<Verdict("required", TRUE)>>]
    ELSE IF minLength /\ Len(value.str) < Get(rules.minLength)
    THEN [error |-> Some(field \o " must be at least "
                           \o ToString(Get(rules.minLength)) \o " characters"),
          trace |-> Append(t1, Verdict("minLength", TRUE))]
    ELSE IF maxLength /\ Len(value.str) > Get(rules.maxLength)
    THEN [error |-> Some(field \o " must be no more than "
                           \o ToString(Get(rules.maxLength)) \o " characters"),
          trace |-> Append(t2, Verdict("maxLength", TRUE))]
    ELSE IF pattern /\ ~Test(Get(rules.pattern), value.str)
    THEN [error |-> Some(field \o " format is invalid"),
          trace |-> Append(t3, Verdict("pattern", TRUE))]
    ELSE IF custom
    THEN IF customError # NULL /\ Get(customError) # ""
         THEN [error |-> customError, trace |-> Append(t4, Verdict("custom", TRUE))]
         ELSE [error |-> NULL, trace |-> Append(t4, Verdict("custom", FALSE))]
    ELSE [error |-> NULL, trace |-> t4]

\* the errors object after the loop has visited entries i.. of the schema
RECURSIVE ErrorsFrom(_, _, _, _)
ErrorsFrom(formData, entries, i, errors) ==
    IF i > Len(entries) THEN errors
    ELSE LET checked == CheckField(entries[i].field, entries[i].rules,
                                   Prop(formData, entries[i].field))
         IN ErrorsFrom(formData, entries, i + 1,
                       IF checked.error # NULL
                       THEN SetProp(errors, entries[i].field, Get(checked.error))
                       ELSE errors)

\* validateFormData(formData, schema), the schema given as Object.entries(schema)
validateFormData(formData, entries) ==
    LET errors == ErrorsFrom(formData, entries, 1, EmptyObject)
    IN [isValid |-> DOMAIN errors = {}, errors |-> errors]

\* the schemas and inputs explored: the first field is declared under one of
\* FirstFieldNames (a schema may declare any own property, { ["__proto__"]:
\* rules } included), field i + 1 under FieldNames[i]
FirstFieldNames == {"name", "toString", "__proto__"}
FieldNames == <<"email", "bio", "age", "zip">>

Rules ==
    [required : {NULL, Some(TRUE)},
     minLength : {NULL, Some(0), Some(2)},
     maxLength : {NULL, Some(0), Some(2)},
     pattern : {NULL, Some(EmailPattern)},
     custom : {NULL} \cup {Some(c) : c \in Customs}]

NoRule == [required |-> NULL, minLength |-> NULL, maxLength |-> NULL,
           pattern |-> NULL, custom |-> NULL]

\* rules of the fields after the first
OtherRules ==
    { [NoRule EXCEPT !.required = Some(TRUE)],
      [NoRule EXCEPT !.minLength = Some(2)],
      [NoRule EXCEPT !.required = Some(FALSE), !.custom = Some("reject")] }

Values ==
    { Undefined, Str(""), Str("a"), Str("ab"), Str("abc"), Str("a@b.c"), Str("a @b.c"),
      Str("a\r@b.c"),
      Num(0), Num(7), Bool(FALSE), Bool(TRUE) }

\* values of the fields after the first
OtherValues == { Undefined, Str("a"), Str("abc") }

Schemas ==
    {<<>>} \cup
    { <<[field |-> first, rules |-> r]>>
          \o [i \in 1..k |-> [field |-> FieldNames[i], rules |-> rs[i]]] :
        <<first, r, k, rs>> \in
            { <<first, r, k, rs>> \in FirstFieldNames \X Rules \X (0..(MaxFields - 1)) \X
                  UNION { [1..k -> OtherRules] : k \in 0..(MaxFields - 1) } :
                DOMAIN rs = 1..k } }

\* an input gives each declared field a value (none when undefined) and holds
\* one property the schema does not declare
InputsFor(entries) ==
    { [k \in {entries[i].field : i \in {j \in 1..Len(entries) : vs[j] # Undefined}}
            \cup {"undeclared"} |->
          IF k = "undeclared" THEN Str("")
          ELSE vs[CHOOSE i \in 1..Len(entries) : entries[i].field = k]] :
        vs \in { vs \in [1..Len(entries) -> Values] :
                    \A i \in 2..Len(entries) : vs[i] \in OtherValues } }

InitValidate ==
    /\ hookAction = "updateProfile"
    /\ state = initialState
    /\ isPending = FALSE
    /\ timers = <<>>
    /\ now = 0
    /\ nDispatched = 0
    /\ nResolved = 0
    /\ lastCall = <<>>
    /\ overlapped = FALSE
    /\ settled = {}
    /\ vSchema \in Schemas
    /\ vInput \in InputsFor(vSchema)
    /\ vIdx = 1
    /\ vErrors = EmptyObject
    /\ vTrace = <<>>
    /\ vResult = NULL
    /\ vStart = [input |-> vInput, schema |-> vSchema]
    /\ vSeen = <<>>
    /\ vCalls = 1
    /\ posts = <<>>
    /\ optimisticState = <<>>
    /\ revertTimers = <<>>
    /\ oSubs = <<>>
    /\ oOutcomes = <<>>
    /\ oFired = 0
    /\ oLastRevert = NULL
    /\ sReturn = NULL
    /\ RestIdle

\* the schema after the loop body ran for entry i: when the body evaluated
\* rules.pattern.test(value), the entry's RegExp object is as test left it
SchemaAfter(entries, i, trace, value) ==
    IF \E k \in 1..Len(trace) : trace[k].rule = "pattern"
    THEN [entries EXCEPT ![i].rules.pattern =
              Some(AfterTest(Get(entries[i].rules.pattern), value.str))]
    ELSE entries

\* the body of the for loop, for the next entry of the schema
ValidateField ==
    /\ vResult = NULL
    /\ vIdx <= Len(vSchema)
    /\ LET entry == vSchema[vIdx]
           checked == CheckField(entry.field, entry.rules, Prop(vInput, entry.field))
       IN /\ vErrors' = IF checked.error # NULL
                        THEN SetProp(vErrors, entry.field, Get(checked.error))
                        ELSE vErrors
          /\ vTrace' = Append(vTrace, checked.trace)
          /\ vSchema' = SchemaAfter(vSchema, vIdx, checked.trace, Prop(vInput, entry.field))
    /\ vIdx' = vIdx + 1
    /\ UNCHANGED <<vInput, vResult, vStart, vSeen, vCalls>>
    /\ UNCHANGED <<simVars, optVars, sReturn, restVars>>

\* return { isValid: Object.keys(errors).length === 0, errors }
ValidateReturn ==
    /\ vResult = NULL
    /\ vIdx > Len(vSchema)
    /\ vResult' = Some([isValid |-> DOMAIN vErrors = {}, errors |-> vErrors])
    /\ vSeen' = Append(vSeen, <<vInput, [isValid |-> DOMAIN vErrors = {}, errors |-> vErrors]>>)
    /\ UNCHANGED <<vSchema, vInput, vIdx, vErrors, vTrace, vStart, vCalls>>
    /\ UNCHANGED <<simVars, optVars, sReturn, restVars>>

NextValidate == ValidateField \/ ValidateReturn

SpecValidate == InitValidate /\ [][NextValidate]_vars

\* the loop computes what validateFormData returns
ValidateOK ==
    vResult # NULL => Get(vResult) = validateFormData(vInput, vSchema)

-----------------------------------------------------------------------------
(* Properties of the action simulator *)

Resolved == nResolved' = nResolved + 1
Called == Get(lastCall)

\* the message each action reports when the simulated call fails
ExpectedMessage(a) ==
    IF a = "updateProfile" THEN "API Error: Failed to updateProfile"
    ELSE IF a = "createPost" THEN "API Error: Failed to createPost"
    ELSE "API Error: Failed to updatePreferences"

\* C1: once the state holds non-null data, applying the result of a failed
\* action leaves data unchanged, also when dispatches overlap.
C1_FailureKeepsData ==
    [][(Resolved /\ Get(lastCall').fail /\ state.data # NULL)
          => state'.data = state.data]_vars

\* C2 (as claimed): exactly one of data and error is non-null once an action
\* has resolved, and both are null while pending or before any dispatch.
C2_ExactlyOneOfDataError ==
    /\ (nResolved > 0 /\ ~Observed.pending)
          => ((Observed.data # NULL) # (Observed.error # NULL))
    /\ (Observed.pending \/ nDispatched = 0)
          => (Observed.data = NULL /\ Observed.error = NULL)

\* C2 (amended): before the first resolution data and error are both null;
\* after a resolution a success has set data and cleared error, a failure has
\* set error and left in data what the dispatch captured (so both can be
\* non-null), and these values stay as they are while a later dispatch is pending.
C2_DataErrorAfterResolution ==
    /\ nResolved = 0 => (Observed.data = NULL /\ Observed.error = NULL)
    /\ nResolved > 0 =>
          IF Called.fail
          THEN Observed.error # NULL /\ Observed.data = Called.prevState.data
          ELSE Observed.data # NULL /\ Observed.error = NULL

C2_Witness ==
    /\ ~Observed.pending
    /\ Observed.data # NULL
    /\ Observed.error # NULL

\* C3: when dispatches on one hook instance overlap, the state observed after
\* all have resolved is, in every field, the state returned by the latest dispatch.
C3_LastDispatchWins ==
    (timers = <<>> /\ nDispatched > 0)
        => /\ Called.n = nDispatched
           /\ Observed = Called.result
           /\ Observed = CallAction(hookAction, Called.prevState, Called.formData,
                                    Called.fail, Called.at)

C3_Witness ==
    /\ overlapped
    /\ nDispatched = 2
    /\ timers = <<>>
    /\ ~Called.fail

\* one step of the observed state machine idle -> pending -> resolved | rejected
C4_Step ==
    /\ nDispatched' # nDispatched => Observed'.pending
    /\ (~Observed.pending /\ Observed'.pending) => nDispatched' = nDispatched + 1
    /\ (Observed.pending /\ ~Observed'.pending)
          => /\ Resolved
             /\ timers' = <<>>
             /\ IF Get(lastCall').fail
                THEN Observed'.error # NULL
                ELSE Observed'.data # NULL /\ Observed'.error = NULL
    /\ (~Observed.pending /\ ~Observed'.pending) => Observed' = Observed

\* C4: the observed state is pending from a dispatch until the results of all
\* dispatched actions are applied, leaves pending only as resolved or rejected,
\* and never changes without passing through pending.
C4_IdlePendingResolved ==
    /\ [](timers # <<>> => Observed.pending)
    /\ [][C4_Step]_vars

C4_Witness ==
    /\ nResolved = 1
    /\ nDispatched = 1
    /\ ~Observed.pending
    /\ Observed.error # NULL

\* C5 (as claimed): every dispatch is eventually followed by a state with
\* pending = false that carries the result of that dispatch.
C5_EachDispatchSettles ==
    \A n \in 1..MaxDispatch : (nDispatched >= n) ~> (n \in settled)

\* C5 (amended): every dispatch is eventually resolved, in the order of the
\* dispatches, its result (success or failure) is applied to the state when it
\* resolves, and the state is not pending whenever no dispatch is outstanding.
C5_EachDispatchApplied ==
    /\ \A n \in 1..MaxDispatch : (nDispatched >= n) ~> (nResolved >= n)
    /\ [][Resolved => /\ Get(lastCall').n = nResolved'
                       /\ state' = Get(lastCall').result
                       /\ (state'.error # NULL) = Get(lastCall').fail]_vars
    /\ [](timers = <<>> => ~Observed.pending)

C5_Witness ==
    /\ overlapped
    /\ nResolved = 2
    /\ ~Observed.pending
    /\ 1 \notin settled

\* C6: when the simulated call fails the action still returns a state: pending
\* false, error 'API Error: Failed to <label>', lastAction the label, and data
\* equal to prevState.data.
C6_FailureIsData ==
    (lastCall # NULL /\ Called.fail)
        => Called.result = [data |-> Called.prevState.data,
                            error |-> Some(ExpectedMessage(hookAction)),
                            pending |-> FALSE,
                            lastAction |-> Some(hookAction)]

C6_Witness ==
    /\ lastCall # NULL
    /\ Called.fail
    /\ Called.prevState.data # NULL

\* previous states an action may be handed
SamplePrevStates ==
    { initialState,
      state,
      [data |-> Some([id |-> Str("old")]), error |-> Some("old error"),
       pending |-> TRUE, lastAction |-> Some("other")] }

\* C7: when the simulated call succeeds the action returns pending false, data
\* set to the new Result, error null and lastAction the label, and the returned
\* state is the same for every prevState.
C7_SuccessSetsData ==
    (lastCall # NULL /\ ~Called.fail)
        => /\ Called.result.pending = FALSE
           /\ Called.result.data # NULL
           /\ Called.result.error = NULL
           /\ Called.result.lastAction = Some(hookAction)
           /\ \A p \in SamplePrevStates :
                 CallAction(hookAction, p, Called.formData, FALSE, Called.at)
                     = Called.result

C7_Witness ==
    /\ lastCall # NULL
    /\ ~Called.fail
    /\ Called.prevState.error # NULL

\* C8 (as claimed): the Result holds the generated identifier under id, the
\* creation timestamp under createdAt and every input field with the value supplied.
C8_ResultEchoesEveryField ==
    (lastCall # NULL /\ ~Called.fail)
        => LET r == Get(Called.result.data) IN
           /\ r["id"] = Str(ToString(Called.at))
           /\ r["createdAt"] = Str(toISOString(Called.at))
           /\ \A k \in DOMAIN Called.formData : r[k] = Called.formData[k]

\* C8 (amended): the Result holds the creation timestamp under createdAt (an
\* input field of that name is overwritten), every other input field with the
\* value supplied, and under id the generated identifier unless the input has
\* an id field of its own, which then takes its place.
C8_ResultEchoesInput ==
    (lastCall # NULL /\ ~Called.fail)
        => LET r == Get(Called.result.data) IN
           /\ DOMAIN r = DOMAIN Called.formData \cup {"id", "createdAt"}
           /\ r["createdAt"] = Str(toISOString(Called.at))
           /\ \A k \in DOMAIN Called.formData \ {"createdAt"} : r[k] = Called.formData[k]
           /\ "id" \notin DOMAIN Called.formData => r["id"] = Str(ToString(Called.at))

C8_Witness ==
    /\ lastCall # NULL
    /\ ~Called.fail
    /\ {"id", "createdAt"} \subseteq DOMAIN Called.formData
    /\ Called.at > 0
-----------------------------------------------------------------------------
(* Properties of the field validator *)

Returned == vResult # NULL
Errors == Get(vResult).errors
ValueOf(i) == Prop(vInput, vSchema[i].field)

\* C9: for a field whose rule has required set, the required error is
\* reported exactly when the value is absent or the empty string; 0 and false
\* satisfy required.
C9_RequiredOnlyAbsentOrEmpty ==
    Returned =>
        \A i \in 1..Len(vSchema) :
            LET field == vSchema[i].field IN
            vSchema[i].rules.required = Some(TRUE)
                => ((field \in DOMAIN Errors /\ Errors[field] = field \o " is required")
                       <=> ValueOf(i) \in {Undefined, Str("")})

RuleOrder == <<"required", "minLength", "maxLength", "pattern", "custom">>

NonEmptyString(value) == typeof(value) = "string" /\ value # Str("")

\* rule k of RuleOrder is declared by the rules and applies to the value
RuleApplies(k, rules, value) ==
    IF k = 1 THEN rules.required = Some(TRUE)
    ELSE IF k = 2 THEN NonEmptyString(value) /\ rules.minLength \notin {NULL, Some(0)}
    ELSE IF k = 3 THEN NonEmptyString(value) /\ rules.maxLength \notin {NULL, Some(0)}
    ELSE IF k = 4 THEN NonEmptyString(value) /\ rules.pattern # NULL
    ELSE rules.custom # NULL

\* rule k, which applies, rejects the value
RuleFails(k, rules, value) ==
    IF k = 1 THEN value \in {Undefined, Str(""), Num(0), Bool(FALSE)}
    ELSE IF k = 2 THEN Len(value.str) < Get(rules.minLength)
    ELSE IF k = 3 THEN Len(value.str) > Get(rules.maxLength)
    ELSE IF k = 4 THEN ~Test(Get(rules.pattern), value.str)
    ELSE CallCustom(Get(rules.custom), value) \notin {NULL, Some("")}

RuleMessage(k, field, rules, value) ==
    IF k = 1 THEN field \o " is required"
    ELSE IF k = 2 THEN field \o " must be at least " \o ToString(Get(rules.minLength))
                             \o " characters"
    ELSE IF k = 3 THEN field \o " must be no more than " \o ToString(Get(rules.maxLength))
                             \o " characters"
    ELSE IF k = 4 THEN field \o " format is invalid"
    ELSE Get(CallCustom(Get(rules.custom), value))

Rejects(k, rules, value) == RuleApplies(k, rules, value) /\ RuleFails(k, rules, value)

\* C10: the rules of a field are evaluated in the order required, minLength,
\* maxLength, pattern, custom; the error recorded for the field is the message
\* of the first rule in that order that fails (none when no rule fails), and no
\* rule after it is evaluated.
C10_FirstFailingRuleWins ==
    \A i \in 1..Len(vTrace) :
        LET field == vSchema[i].field
            rules == vSchema[i].rules
            value == ValueOf(i)
            failing == {k \in 1..5 : Rejects(k, rules, value)}
            Evaluated(k) == /\ RuleApplies(k, rules, value)
                            /\ \A j \in 1..(k - 1) : j \notin failing
            expected == SelectSeq(<<1, 2, 3, 4, 5>>, Evaluated)
        IN /\ Len(vTrace[i]) = Len(expected)
           /\ \A n \in 1..Len(expected) :
                 vTrace[i][n] = Verdict(RuleOrder[expected[n]], expected[n] \in failing)
           /\ IF failing = {}
              THEN field \notin DOMAIN vErrors
              ELSE /\ field \in DOMAIN vErrors
                   /\ vErrors[field] =
                        RuleMessage(CHOOSE k \in failing : \A j \in failing : k <= j,
                                    field, rules, value)

\* the rules evaluated for field i, by name
Evaluated(i) == {vTrace[i][n].rule : n \in 1..Len(vTrace[i])}

\* C11: for a numeric or boolean value (0 and false included) none of
\* minLength, maxLength and pattern is applied, and the custom predicate is
\* still called with the value, its message becoming the field's error.
C11_NumbersReachCustom ==
    \A i \in 1..Len(vTrace) :
        LET field == vSchema[i].field
            rules == vSchema[i].rules
            value == ValueOf(i)
        IN typeof(value) \in {"number", "boolean"}
              => /\ Evaluated(i) \cap {"minLength", "maxLength", "pattern"} = {}
                 /\ rules.custom # NULL
                       => /\ "custom" \in Evaluated(i)
                          /\ CallCustom(Get(rules.custom), value) \notin {NULL, Some("")}
                                => /\ field \in DOMAIN vErrors
                                   /\ Some(vErrors[field])
                                         = CallCustom(Get(rules.custom), value)

MinMessage(field, n) == field \o " must be at least " \o ToString(n) \o " characters"
MaxMessage(field, n) == field \o " must be no more than " \o ToString(n) \o " characters"

ErrorIs(field, message) == field \in DOMAIN vErrors /\ vErrors[field] = message

\* C12: with minLength n (maxLength n) every string shorter
\* (longer) than n gets the field's length error and every other string passes
\* the length rule, for every string, the empty one included, every n >= 0 and
\* whether or not the field is required.
C12_LengthBoundsEveryString ==
    \A i \in 1..Len(vTrace) :
        LET field == vSchema[i].field
            rules == vSchema[i].rules
            value == ValueOf(i)
        IN typeof(value) = "string"
              => /\ rules.minLength # NULL
                       => (ErrorIs(field, MinMessage(field, Get(rules.minLength)))
                              <=> Len(value.str) < Get(rules.minLength))
                 /\ rules.maxLength # NULL
                       => (ErrorIs(field, MaxMessage(field, Get(rules.maxLength)))
                              <=> Len(value.str) > Get(rules.maxLength))

\* C13: every declared field is checked on every call: the errors map holds an
\* entry for exactly the declared fields that have a failing rule, whatever the
\* other fields gave, and none for a field the schema does not declare.
C13_EveryDeclaredFieldChecked ==
    Returned =>
        /\ Len(vTrace) = Len(vSchema)
        /\ DOMAIN Errors =
              { vSchema[i].field : i \in
                  { j \in 1..Len(vSchema) :
                      \E k \in 1..5 : Rejects(k, vSchema[j].rules, ValueOf(j)) } }
        /\ Get(vResult).isValid = (DOMAIN Errors = {})

-----------------------------------------------------------------------------
(* validateFormData called repeatedly with one schema object *)

\* schemas whose email pattern is written without or with the g flag
RepeatSchemas ==
    { <<[field |-> "email",
         rules |-> [NoRule EXCEPT !.required = Some(TRUE), !.pattern = Some(p)]]>> \o rest :
        <<p, rest>> \in {EmailPattern, EmailPatternGlobal} \X
            { <<>>, <<[field |-> "name", rules |-> [NoRule EXCEPT !.minLength = Some(2)]]>> } }

RepeatInputs ==
    { EmptyObject,
      [email |-> Str("a@b.c")],
      [email |-> Str("ab")],
      [email |-> Str("a@b.c"), name |-> Str("a")] }

InitRepeat ==
    /\ hookAction = "updateProfile"
    /\ state = initialState
    /\ isPending = FALSE
    /\ timers = <<>>
    /\ now = 0
    /\ nDispatched = 0
    /\ nResolved = 0
    /\ lastCall = <<>>
    /\ overlapped = FALSE
    /\ settled = {}
    /\ vSchema \in RepeatSchemas
    /\ vInput \in RepeatInputs
    /\ vIdx = 1
    /\ vErrors = EmptyObject
    /\ vTrace = <<>>
    /\ vResult = NULL
    /\ vStart = [input |-> vInput, schema |-> vSchema]
    /\ vSeen = <<>>
    /\ vCalls = 1
    /\ posts = <<>>
    /\ optimisticState = <<>>
    /\ revertTimers = <<>>
    /\ oSubs = <<>>
    /\ oOutcomes = <<>>
    /\ oFired = 0
    /\ oLastRevert = NULL
    /\ sReturn = NULL
    /\ RestIdle

\* the caller calls validateFormData again, with the schema object it holds
CallAgain == \E formData \in RepeatInputs :
    /\ vResult # NULL
    /\ vCalls < MaxCalls
    /\ vInput' = formData
    /\ vIdx' = 1
    /\ vErrors' = EmptyObject
    /\ vTrace' = <<>>
    /\ vResult' = NULL
    /\ vStart' = [input |-> formData, schema |-> vSchema]
    /\ vCalls' = vCalls + 1
    /\ UNCHANGED <<vSchema, vSeen>>
    /\ UNCHANGED <<simVars, optVars, sReturn, restVars>>

NextRepeat == ValidateField \/ ValidateReturn \/ CallAgain

SpecRepeat == InitRepeat /\ [][NextRepeat]_vars

\* calls that returned agree on equal inputs, and the running call has left
\* its input and its schema as it received them
SameInputSameResult ==
    /\ \A a, b \in 1..Len(vSeen) : vSeen[a][1] = vSeen[b][1] => vSeen[a][2] = vSeen[b][2]
    /\ vInput = vStart.input
    /\ vSchema = vStart.schema

\* C14: validateFormData is pure and deterministic: the same input
\* and schema give the same result whatever calls were made in between, and
\* neither the input nor the schema is modified.
C14_PureDeterministic == SameInputSameResult

-----------------------------------------------------------------------------
(* useOptimistic and useOptimisticForm, as the post form of the demo page   *)
(* uses them                                                                *)

\* setTimeout(..., 2000) of addOptimistic
RevertDelay == 2000

\* appState.user.name
UserName == "React 19 Developer"

\* the titles typed into the post form
Titles == {"Hello", "News"}

\* useState<Post[]>([...]) of PostCreationForm
InitialPosts ==
    << [id |-> "1",
        title |-> "Welcome to React 19",
        content |-> "This is an example post showing optimistic updates.",
        author |-> UserName,
        createdAt |-> toISOString(0)] >>

\* postData of handleSubmit
PostData(title) == [title |-> Str(title), content |-> Str("text"), author |-> Str(UserName)]

\* optimisticPost of handleSubmit
OptimisticPost(postData, t) ==
    [id |-> "temp-" \o ToString(t),
     title |-> postData.title.str,
     content |-> postData.content.str,
     author |-> postData.author.str,
     createdAt |-> toISOString(t)]

\* post.id.startsWith('temp-')
Provisional(post) == Len(post.id) >= 5 /\ SubSeq(post.id, 1, 5) = "temp-"

\* mutant: the new item is put in front
updateFn_prepend(list, newItem) == <<newItem>> \o list

\* (state, newItem) => [...state, newItem]
updateFn(list, newItem) == Append(list, newItem)

\* mutant: addOptimistic arms its timer and leaves the list as it is
AddOptimistic_timerOnly(prev, optimisticValue) == prev

\* setOptimisticState(prev => updateFn(prev, optimisticValue))
AddOptimistic(prev, optimisticValue) == updateFn(prev, optimisticValue)

\* const [isPending] = useTransition() of useOptimistic: this transition is
\* never started, so every render of the hook sees false
OwnIsPending == FALSE

\* mutant: the timer takes out the item it was armed for and keeps the rest
RevertTo_ownItemOnly(prev, timer) ==
    IF ~timer.isPending THEN SelectSeq(prev, LAMBDA post : post # timer.item) ELSE prev

\* mutant: the timer callback does nothing
RevertTo_never(prev, timer) == prev

\* the timer callback: if (!isPending) setOptimisticState(state), with the
\* isPending and the state of the render that made addOptimistic
RevertTo(prev, timer) == IF ~timer.isPending THEN timer.state ELSE prev

InitOptimistic ==
    /\ hookAction = "createPost"
    /\ state = initialState
    /\ isPending = FALSE
    /\ timers = <<>>
    /\ now = 0
    /\ nDispatched = 0
    /\ nResolved = 0
    /\ lastCall = <<>>
    /\ overlapped = FALSE
    /\ settled = {}
    /\ vSchema = <<>>
    /\ vInput = EmptyObject
    /\ vIdx = 1
    /\ vErrors = EmptyObject
    /\ vTrace = <<>>
    /\ vResult = NULL
    /\ vStart = [input |-> vInput, schema |-> vSchema]
    /\ vSeen = <<>>
    /\ vCalls = 1
    /\ posts = InitialPosts
    /\ optimisticState = InitialPosts
    /\ revertTimers = <<>>
    /\ oSubs = <<>>
    /\ oOutcomes = <<>>
    /\ oFired = 0
    /\ oLastRevert = NULL
    /\ sReturn = NULL
    /\ RestIdle

\* handleSubmit: submitWithOptimistic(postData, optimisticPost); addOptimistic
\* appends the item and arms its timer, then dispatch starts the action
SubmitWithOptimistic ==
    \E title \in Titles :
        LET postData == PostData(title)
            item == OptimisticPost(postData, now)
        IN /\ now + RevertDelay <= MaxClock
           /\ optimisticState' = AddOptimistic(optimisticState, item)
           /\ revertTimers' = Append(revertTimers, [due |-> now + RevertDelay,
                                                    n |-> nDispatched + 1,
                                                    state |-> posts,
                                                    isPending |-> OwnIsPending,
                                                    item |-> item])
           /\ oSubs' = Append(oSubs, [item |-> item, fired |-> oFired,
                                      prev |-> optimisticState,
                                      next |-> AddOptimistic(optimisticState, item)])
           /\ DispatchStep(postData)
           /\ UNCHANGED <<posts, oOutcomes, oFired, oLastRevert>>
           /\ UNCHANGED <<valVars, sReturn, restVars>>

\* the oldest timer of addOptimistic fires
RevertFire ==
    /\ revertTimers # <<>>
    /\ Head(revertTimers).due <= now
    /\ timers # <<>> => ~ActionTimerFirst(Head(timers), Head(revertTimers))
    /\ LET timer == Head(revertTimers)
       IN /\ optimisticState' = RevertTo(optimisticState, timer)
          /\ oLastRevert' = Some([n |-> timer.n, base |-> timer.state,
                                  current |-> posts,
                                  before |-> optimisticState,
                                  after |-> RevertTo(optimisticState, timer),
                                  failed |-> IF timer.n <= Len(oOutcomes)
                                             THEN Some(oOutcomes[timer.n]) ELSE NULL])
    /\ revertTimers' = Tail(revertTimers)
    /\ oFired' = oFired + 1
    /\ UNCHANGED <<posts, oSubs, oOutcomes>>
    /\ UNCHANGED <<simVars, valVars, sReturn, restVars>>

\* handleDeletePost(postId), from the delete button of a displayed post that
\* is not provisional
DeletePost ==
    \E i \in 1..Len(optimisticState) :
        /\ ~Provisional(optimisticState[i])
        /\ posts' = SelectSeq(posts, LAMBDA post : post.id # optimisticState[i].id)
        /\ UNCHANGED <<optimisticState, revertTimers, oSubs, oOutcomes, oFired, oLastRevert>>
        /\ UNCHANGED <<simVars, valVars, sReturn, restVars>>

NextOptimistic == Tick \/ SubmitWithOptimistic \/ Resolve \/ RevertFire \/ DeletePost

SpecOptimistic == InitOptimistic /\ [][NextOptimistic]_vars

\* the timers fire and time passes
FairSpecOptimistic ==
    SpecOptimistic /\ WF_vars(Tick) /\ WF_vars(Resolve) /\ WF_vars(RevertFire)

\* the elements of a list
Elems(list) == {list[i] : i \in 1..Len(list)}

\* lists and items updateFn is tried on besides those of the submissions
SamplePosts == {InitialPosts[1], OptimisticPost(PostData("Hello"), 0)}
SampleLists == UNION {[1..k -> SamplePosts] : k \in 0..2}

\* the result is the input list followed by the item
AppendsItem(list, item, result) ==
    /\ Len(result) = Len(list) + 1
    /\ result[Len(result)] = item
    /\ SubSeq(result, 1, Len(list)) = list

\* C15: the update function of useOptimisticForm returns a new list of length
\* len(list)+1 whose last element is the item and whose first len(list)
\* elements are those of the input list in order; the input list is left as
\* it was (the timers armed earlier still hold the base list they captured).
C15_UpdateAppends ==
    /\ \A list \in SampleLists : \A item \in SamplePosts :
           AppendsItem(list, item, updateFn(list, item))
    /\ \A k \in 1..Len(oSubs) : AppendsItem(oSubs[k].prev, oSubs[k].item, oSubs[k].next)
    /\ \A k \in 1..Len(revertTimers) : ~\E i \in 1..Len(revertTimers[k].state) :
           Provisional(revertTimers[k].state[i])

\* a second item was appended to a list that already held a provisional item
C15_Witness ==
    /\ Len(oSubs) = 2
    /\ Len(oSubs[2].prev) = 2
    /\ optimisticState = oSubs[2].next
    /\ oSubs[2].item # oSubs[1].item

\* C16: after submitWithOptimistic(formData, item) the displayed list has the
\* provisional item as its last element as long as no timer of addOptimistic
\* has fired since, whether or not the paired action has resolved; every
\* earlier item with no timer fired since its submission is displayed too.
C16_ItemShownAtOnce ==
    \A k \in 1..Len(oSubs) :
        oSubs[k].fired = oFired
            => /\ oSubs[k].item \in Elems(optimisticState)
               /\ k = Len(oSubs) => /\ optimisticState # <<>>
                                    /\ optimisticState[Len(optimisticState)] = oSubs[k].item

\* the item is displayed while its action is still running, some time after
\* the submission
C16_Witness ==
    /\ Len(oSubs) = 1
    /\ nResolved = 0
    /\ oFired = 0
    /\ now > 0
    /\ optimisticState[Len(optimisticState)] = oSubs[1].item

\* C17: when a timer of addOptimistic fires, the displayed list becomes the
\* base list the hook was given when the item was submitted: no provisional
\* item is left, those of later submissions included, whatever the outcome of
\* each item's action.
C17_RevertReplacesWholeList ==
    /\ oLastRevert # NULL
           => /\ Get(oLastRevert).after = Get(oLastRevert).base
              /\ \A post \in Elems(Get(oLastRevert).after) : ~Provisional(post)
    /\ oFired > 0 /\ oSubs[Len(oSubs)].fired < oFired
           => \A post \in Elems(optimisticState) : ~Provisional(post)

\* the first timer fired while the list held the item of a later submission
C17_Witness ==
    /\ oLastRevert # NULL
    /\ Get(oLastRevert).n = 1
    /\ Len(oSubs) = 2
    /\ oSubs[2].item \in Elems(Get(oLastRevert).before)
    /\ oSubs[2].item # oSubs[1].item
    /\ oSubs[2].item \notin Elems(optimisticState)
    /\ revertTimers # <<>>

\* C18: the timed revert happens only if the paired action was not confirmed
\* within the 2-second window: when the action of a submission has resolved
\* successfully before its timer fires, the timer leaves the displayed list
\* as it is.
C18_RevertOnlyUnconfirmed ==
    oLastRevert # NULL /\ Get(oLastRevert).failed = Some(FALSE)
        => Get(oLastRevert).after = Get(oLastRevert).before

\* C19: whenever the action paired with a provisional item fails, the item is
\* eventually removed from the displayed list, and an item that is not
\* displayed is displayed again only by a submission.
C19_FailedItemRolledBack ==
    /\ \A k \in 1..MaxDispatch :
           (k <= Len(oOutcomes) /\ k <= Len(oSubs) /\ oOutcomes[k])
               ~> (k <= Len(oSubs) /\ oSubs[k].item \notin Elems(optimisticState))
    /\ [][\A k \in 1..Len(oSubs) :
             (oSubs[k].item \notin Elems(optimisticState)
                 /\ oSubs[k].item \in Elems(optimisticState'))
                 => nDispatched' = nDispatched + 1]_vars

\* the action of an item failed and a timer has taken the item out
C19_Witness ==
    /\ Len(oSubs) >= 1
    /\ Len(oOutcomes) >= 1
    /\ oOutcomes[1]
    /\ oFired >= 1
    /\ oSubs[1].item \notin Elems(optimisticState)
    /\ oSubs[1].item \in Elems(Get(oLastRevert).before)

-----------------------------------------------------------------------------
(* useValidatedFormAction, as the profile form of the demo page uses it     *)

\* validationSchema of UserProfileForm, as Object.entries gives it
ProfileSchema ==
    << [field |-> "name",
        rules |-> [NoRule EXCEPT !.required = Some(TRUE), !.minLength = Some(2),
                                 !.maxLength = Some(50)]],
       [field |-> "email",
        rules |-> [NoRule EXCEPT !.required = Some(TRUE), !.pattern = Some(EmailPattern)]],
       [field |-> "bio",
        rules |-> [NoRule EXCEPT !.maxLength = Some(200)]] >>

RECURSIVE Repeat(_, _)
\* s.repeat(n)
Repeat(s, n) ==
    IF n = 0 THEN ""
    ELSE IF n % 2 = 0 THEN LET half == Repeat(s, n \div 2) IN half \o half
    ELSE s \o Repeat(s, n - 1)

\* the forms submitted: data of handleSubmit, and forms a caller of the hook
\* may hand in (a missing field, a number)
ProfileInputs ==
    { [name |-> Str(n), email |-> Str(e), bio |-> Str(b)] :
        <<n, e, b>> \in {"A", "Ann"} \X {"bad", "a@b.c"} \X {""} }
    \cup { [name |-> Str(Repeat("a", 51)), email |-> Str("a@b.c"), bio |-> Str("")],
           [name |-> Str("Ann"), email |-> Str("a@b.c"), bio |-> Str(Repeat("b", 201))],
           [name |-> Str("Ann"), email |-> Str("a@b\f.c"), bio |-> Str("")],
           [name |-> Str("Ann")],
           [name |-> Num(7), email |-> Str("a@b.c")] }

\* a validationSchema a caller may hand to the hook: it declares the own
\* property __proto__, as { ["__proto__"]: { minLength: 2 } } does
ProtoSchema ==
    << [field |-> "__proto__", rules |-> [NoRule EXCEPT !.minLength = Some(2)]] >>

\* forms submitted against ProtoSchema: JSON.parse('{"__proto__":"a"}') and
\* JSON.parse('{"__proto__":"ab"}'), whose __proto__ is an own property
ProtoInputs == { [__proto__ |-> Str("a")], [__proto__ |-> Str("ab")] }

\* the validationSchema argument of useValidatedFormAction
ValidatedSchemas == {ProfileSchema, ProtoSchema}

\* the forms submitted to a hook with the given schema
FormsFor(schema) == IF schema = ProfileSchema THEN ProfileInputs ELSE ProtoInputs

InitValidated ==
    /\ hookAction = "updateProfile"
    /\ state = initialState
    /\ isPending = FALSE
    /\ timers = <<>>
    /\ now = 0
    /\ nDispatched = 0
    /\ nResolved = 0
    /\ lastCall = <<>>
    /\ overlapped = FALSE
    /\ settled = {}
    /\ vSchema \in ValidatedSchemas
    /\ vInput = EmptyObject
    /\ vIdx = 1
    /\ vErrors = EmptyObject
    /\ vTrace = <<>>
    /\ vResult = NULL
    /\ vStart = [input |-> vInput, schema |-> vSchema]
    /\ vSeen = <<>>
    /\ vCalls = 1
    /\ posts = <<>>
    /\ optimisticState = <<>>
    /\ revertTimers = <<>>
    /\ oSubs = <<>>
    /\ oOutcomes = <<>>
    /\ oFired = 0
    /\ oLastRevert = NULL
    /\ sReturn = NULL
    /\ sResets = {}
    /\ showSuccess = FALSE
    /\ sShownFor = 0
    /\ CtxIdle
    /\ HookIdle

\* handleSubmit of UserProfileForm: submitValidatedForm(data) returns the
\* errors when the validation fails, else calls submitForm(data), which is
\* dispatch(data); handleSubmit opens the snackbar when success is returned
SubmitValidatedForm ==
    \E formData \in FormsFor(vSchema) :
        LET validation == validateFormData(formData, vSchema)
        IN /\ IF ~validation.isValid
              THEN /\ sReturn' = Some([formData |-> formData,
                                       success |-> FALSE,
                                       errors |-> validation.errors])
                   /\ UNCHANGED <<simVars, showSuccess, sShownFor>>
              ELSE /\ DispatchStep(formData)
                   /\ sReturn' = Some([formData |-> formData,
                                       success |-> TRUE,
                                       errors |-> EmptyObject])
                   /\ showSuccess' = TRUE
                   /\ sShownFor' = nDispatched + 1
           /\ UNCHANGED <<valVars, optVars, sResets, ctxVars, hookVars>>

\* reset() of useFormAction, which useValidatedFormAction hands on:
\* dispatch({} as FormData)
ResetValidated ==
    /\ DispatchStep(EmptyObject)
    /\ sResets' = sResets \cup {nDispatched + 1}
    /\ UNCHANGED <<valVars, optVars, sReturn, showSuccess, sShownFor, ctxVars, hookVars>>

\* onClose of the Snackbar (autoHideDuration, click away): setShowSuccess(false)
CloseSnackbar ==
    /\ showSuccess
    /\ showSuccess' = FALSE
    /\ UNCHANGED <<simVars, valVars, optVars, sReturn, sResets, sShownFor, ctxVars, hookVars>>

NextValidated == Tick \/ SubmitValidatedForm \/ ResetValidated \/ CloseSnackbar \/ Resolve

SpecValidated == InitValidated /\ [][NextValidated]_vars

\* the rules of a schema entry that reject the entry's field of the form
FailingRules(formData, entry) ==
    {k \in 1..5 : Rejects(k, entry.rules, Prop(formData, entry.field))}

\* the form fails the schema: a rule of a declared field rejects its value
FailsSchema(formData, entries) ==
    \E i \in 1..Len(entries) : FailingRules(formData, entries[i]) # {}

\* the per-field errors of a form: for each declared field with a rule that
\* rejects its value, the message of the first such rule
PerFieldErrors(formData, entries) ==
    [field \in {entries[i].field :
                   i \in {j \in 1..Len(entries) : FailingRules(formData, entries[j]) # {}}} |->
        LET entry == entries[CHOOSE i \in 1..Len(entries) : entries[i].field = field]
            failing == FailingRules(formData, entry)
        IN RuleMessage(CHOOSE k \in failing : \A j \in failing : k <= j,
                       field, entry.rules, Prop(formData, field))]

\* C20: a submitValidatedForm call with data that fails the schema returns
\* success=false with the per-field errors, and the action is not invoked, no
\* timer is started and the ActionState is unchanged; with data that passes,
\* the action is dispatched exactly once and success=true is returned.
C20_InvalidNeverSubmitted ==
    [][(sReturn' # sReturn \/ nDispatched' # nDispatched) /\ sResets' = sResets =>
          LET r == Get(sReturn')
          IN IF ~FailsSchema(r.formData, vSchema)
             THEN /\ r.success /\ r.errors = EmptyObject
                  /\ nDispatched' = nDispatched + 1
                  /\ Len(timers') = Len(timers) + 1
                  /\ timers'[Len(timers')].formData = r.formData
             ELSE /\ ~r.success
                  /\ r.errors = PerFieldErrors(r.formData, vSchema)
                  /\ nDispatched' = nDispatched
                  /\ timers' = timers
                  /\ state' = state /\ isPending' = isPending
                  /\ Observed' = Observed]_vars

\* C20, for the profile form of the demo page: the same statement when the
\* schema of the hook is the validationSchema of UserProfileForm
C20_ProfileFormNeverSubmittedInvalid ==
    [][(sReturn' # sReturn \/ nDispatched' # nDispatched) /\ sResets' = sResets
            /\ vSchema = ProfileSchema =>
          LET r == Get(sReturn')
          IN IF ~FailsSchema(r.formData, vSchema)
             THEN /\ r.success /\ r.errors = EmptyObject
                  /\ nDispatched' = nDispatched + 1
                  /\ Len(timers') = Len(timers) + 1
                  /\ timers'[Len(timers')].formData = r.formData
             ELSE /\ ~r.success
                  /\ r.errors = PerFieldErrors(r.formData, vSchema)
                  /\ nDispatched' = nDispatched
                  /\ timers' = timers
                  /\ state' = state /\ isPending' = isPending
                  /\ Observed' = Observed]_vars

\* C21: reset() brings the ActionState back to its initial state (data null,
\* error null, pending false, lastAction null) and submits nothing to the
\* simulated API: when the last dispatch was made by reset(), the state the
\* hook returns is the initial one and no call of the action exists for it.
C21_ResetRestoresInitial ==
    nDispatched \in sResets
        => /\ Observed = initialState
           /\ \A i \in 1..Len(timers) : timers[i].n \notin sResets
           /\ lastCall # NULL => Called.n \notin sResets

\* C24: through submitValidatedForm and reset, the action is only ever invoked
\* with form data that passes the validation schema of the hook.
C24_ActionSeesValidDataOnly ==
    /\ \A i \in 1..Len(timers) :
           validateFormData(timers[i].formData, vSchema).isValid
    /\ lastCall # NULL => validateFormData(Called.formData, vSchema).isValid

\* C26: the snackbar 'Profile updated successfully!' is open only when the
\* action of the submission that opened it has resolved successfully; it is
\* never open for a submission whose action is still pending or has failed.
C26_SuccessShownAfterSuccess ==
    showSuccess => /\ sShownFor <= Len(oOutcomes)
                   /\ ~oOutcomes[sShownFor]

\* C25: whenever no timer of addOptimistic is outstanding, the list shown by
\* useOptimisticForm equals the caller's current base list, and a timer that
\* fires restores the base list as it is when it fires.
C25_DisplayedFollowsBase ==
    /\ revertTimers = <<>> => optimisticState = posts
    /\ oLastRevert # NULL => Get(oLastRevert).after = Get(oLastRevert).current

-----------------------------------------------------------------------------
(* src/src/context/AppContext.tsx: appReducer and the provider's functions  *)

\* { ...a, ...b }
Spread(a, b) == [k \in DOMAIN a \cup DOMAIN b |-> IF k \in DOMAIN b THEN b[k] ELSE a[k]]

\* initialState of AppContext.tsx
AppInitialState ==
    [user |-> [name |-> "React 19 Developer",
               email |-> "developer@react19.com",
               preferences |-> [theme |-> "light", notifications |-> TRUE]],
     features |-> [newHooksDemo |-> TRUE, formActionsDemo |-> TRUE, refImprovements |-> TRUE],
     loading |-> FALSE,
     error |-> NULL]

\* mutant: SET_USER puts the payload in the place of the user
appReducer_replacesUser(st, action) ==
    IF action.type = "SET_USER"
    THEN [st EXCEPT !.user = action.payload]
    ELSE IF action.type = "SET_LOADING"
    THEN [st EXCEPT !.loading = action.payload]
    ELSE IF action.type = "SET_ERROR"
    THEN [st EXCEPT !.error = action.payload]
    ELSE IF action.type = "TOGGLE_FEATURE"
    THEN [st EXCEPT !.features =
              Spread(st.features, [k \in {action.payload} |-> ~st.features[action.payload]])]
    ELSE IF action.type = "UPDATE_PREFERENCES"
    THEN [st EXCEPT !.user =
              Spread(st.user, [preferences |-> Spread(st.user.preferences, action.payload)])]
    ELSE st

\* appReducer(state, action)
appReducer(st, action) ==
    IF action.type = "SET_USER"
    THEN [st EXCEPT !.user = Spread(st.user, action.payload)]
    ELSE IF action.type = "SET_LOADING"
    THEN [st EXCEPT !.loading = action.payload]
    ELSE IF action.type = "SET_ERROR"
    THEN [st EXCEPT !.error = action.payload]
    ELSE IF action.type = "TOGGLE_FEATURE"
    THEN [st EXCEPT !.features =
              Spread(st.features, [k \in {action.payload} |-> ~st.features[action.payload]])]
    ELSE IF action.type = "UPDATE_PREFERENCES"
    THEN [st EXCEPT !.user =
              Spread(st.user, [preferences |-> Spread(st.user.preferences, action.payload)])]
    ELSE st

\* the objects with some of the properties of full
Partials(full) == {[k \in d |-> full[k]] : d \in SUBSET DOMAIN full}

\* Partial<AppState['user']> payloads
UserPayloads ==
    Partials([name |-> "Ann", email |-> "ann@example.com",
              preferences |-> [theme |-> "dark", notifications |-> FALSE]])

\* Partial<AppState['user']['preferences']> payloads
PreferencePayloads ==
    UNION {Partials([theme |-> t, notifications |-> n]) :
               <<t, n>> \in {"light", "dark"} \X BOOLEAN}

\* keyof AppState['features']
FeatureNames == {"newHooksDemo", "formActionsDemo", "refImprovements"}

\* dispatch(action) of useReducer
ReducerStep(action) ==
    /\ appState' = appReducer(appState, action)
    /\ aLast' = Some([action |-> action, prev |-> appState])

InitReducer ==
    /\ hookAction = "updatePreferences"
    /\ state = initialState
    /\ isPending = FALSE
    /\ timers = <<>>
    /\ now = 0
    /\ nDispatched = 0
    /\ nResolved = 0
    /\ lastCall = <<>>
    /\ overlapped = FALSE
    /\ settled = {}
    /\ vSchema = <<>>
    /\ vInput = EmptyObject
    /\ vIdx = 1
    /\ vErrors = EmptyObject
    /\ vTrace = <<>>
    /\ vResult = NULL
    /\ vStart = [input |-> vInput, schema |-> vSchema]
    /\ vSeen = <<>>
    /\ vCalls = 1
    /\ posts = <<>>
    /\ optimisticState = <<>>
    /\ revertTimers = <<>>
    /\ oSubs = <<>>
    /\ oOutcomes = <<>>
    /\ oFired = 0
    /\ oLastRevert = NULL
    /\ sReturn = NULL
    /\ FormIdle
    /\ appState = AppInitialState
    /\ localSettings = AppInitialState.user.preferences
    /\ aLast = NULL
    /\ cPrefsBefore = <<>>
    /\ HookIdle

\* updateUser(user)
UpdateUser ==
    \E payload \in UserPayloads :
        /\ ReducerStep([type |-> "SET_USER", payload |-> payload])
        /\ UNCHANGED <<simVars, valVars, optVars, sReturn, formVars, hookVars, localSettings, cPrefsBefore>>

\* toggleFeature(feature)
ToggleFeature ==
    \E feature \in FeatureNames :
        /\ ReducerStep([type |-> "TOGGLE_FEATURE", payload |-> feature])
        /\ UNCHANGED <<simVars, valVars, optVars, sReturn, formVars, hookVars, localSettings, cPrefsBefore>>

\* updatePreferences(preferences)
UpdatePreferences ==
    \E payload \in PreferencePayloads :
        /\ ReducerStep([type |-> "UPDATE_PREFERENCES", payload |-> payload])
        /\ UNCHANGED <<simVars, valVars, optVars, sReturn, formVars, hookVars, localSettings, cPrefsBefore>>

\* dispatch of the context value, with the two actions no function wraps
RawDispatch ==
    \E action \in {[type |-> "SET_LOADING", payload |-> b] : b \in BOOLEAN}
                   \cup {[type |-> "SET_ERROR", payload |-> e] : e \in {NULL, Some("failed")}} :
        /\ ReducerStep(action)
        /\ UNCHANGED <<simVars, valVars, optVars, sReturn, formVars, hookVars, localSettings, cPrefsBefore>>

NextReducer == UpdateUser \/ ToggleFeature \/ UpdatePreferences \/ RawDispatch

SpecReducer == InitReducer /\ [][NextReducer]_vars

\* obj and old agree outside the properties named in keys
SameOutside(obj, old, keys) ==
    /\ DOMAIN obj = DOMAIN old
    /\ \A k \in DOMAIN old \ keys : obj[k] = old[k]

\* C29: TOGGLE_FEATURE flips exactly the named feature flag and leaves the
\* other two flags, user, loading and error unchanged, so applying it twice
\* restores the previous state; SET_USER and UPDATE_PREFERENCES change only
\* the user fields (preference fields) present in their payload and leave
\* features, loading and error unchanged.
C29_ReducerFrame ==
    aLast # NULL =>
        LET action == Get(aLast).action
            prev == Get(aLast).prev
        IN /\ action.type = "TOGGLE_FEATURE"
                => /\ appState.features[action.payload] = ~prev.features[action.payload]
                   /\ SameOutside(appState.features, prev.features, {action.payload})
                   /\ SameOutside(appState, prev, {"features"})
                   /\ appReducer(appState, action) = prev
           /\ action.type = "SET_USER"
                => /\ \A k \in DOMAIN action.payload : appState.user[k] = action.payload[k]
                   /\ SameOutside(appState.user, prev.user, DOMAIN action.payload)
                   /\ SameOutside(appState, prev, {"user"})
           /\ action.type = "UPDATE_PREFERENCES"
                => /\ \A k \in DOMAIN action.payload :
                          appState.user.preferences[k] = action.payload[k]
                   /\ SameOutside(appState.user.preferences, prev.user.preferences,
                                  DOMAIN action.payload)
                   /\ SameOutside(appState.user, prev.user, {"preferences"})
                   /\ SameOutside(appState, prev, {"user"})

\* a feature was toggled after the user, the flags, loading and error had all
\* left their initial values
C29_Witness ==
    /\ aLast # NULL
    /\ Get(aLast).action.type = "TOGGLE_FEATURE"
    /\ Get(aLast).prev.user.name # AppInitialState.user.name
    /\ Get(aLast).prev.features # AppInitialState.features
    /\ Get(aLast).prev.loading
    /\ Get(aLast).prev.error # NULL
    /\ ~appState.features[Get(aLast).action.payload]

-----------------------------------------------------------------------------
(* SettingsForm of the demo page: useFormAction(updatePreferencesAction)     *)
(* under the provider                                                       *)

\* the provider and the form are mounted; localSettings starts as the
\* context's preferences
InitSettings == InitReducer

\* handleSettingChange(setting, value), from a switch, disabled while pending
HandleSettingChange ==
    \E payload \in {[theme |-> t] : t \in {"light", "dark"}}
                    \cup {[notifications |-> n] : n \in BOOLEAN} :
        /\ ~isPending
        /\ localSettings' = Spread(localSettings, payload)
        /\ UNCHANGED <<simVars, valVars, optVars, sReturn, formVars, hookVars>>
        /\ UNCHANGED <<appState, aLast, cPrefsBefore>>

\* handleSubmit of SettingsForm, from the button, disabled while pending:
\* submitForm(formData), then updatePreferences(localSettings)
SubmitSettings ==
    /\ ~isPending
    /\ DispatchStep([theme |-> Str(localSettings.theme),
                     notifications |-> Bool(localSettings.notifications)])
    /\ ReducerStep([type |-> "UPDATE_PREFERENCES", payload |-> localSettings])
    /\ cPrefsBefore' = Append(cPrefsBefore, appState.user.preferences)
    /\ UNCHANGED <<valVars, optVars, sReturn, formVars, hookVars, localSettings>>

NextSettings == Tick \/ HandleSettingChange \/ SubmitSettings \/ Resolve

SpecSettings == InitSettings /\ [][NextSettings]_vars

\* C27: the preferences held in the context change only when
\* updatePreferencesAction succeeds: while the action of the last submission
\* is pending, and after it has failed, the context's user.preferences have
\* the value they had before that submission.
C27_PreferencesChangeOnSuccess ==
    nDispatched > 0 /\ (nDispatched > Len(oOutcomes) \/ oOutcomes[nDispatched])
        => appState.user.preferences = cPrefsBefore[nDispatched]

-----------------------------------------------------------------------------
(* src/unnamed/part_001: cache                                               *)

\* calls of one wrapped function
MaxCacheCalls == 4

\* changes of the promise passed to usePromise
MaxSwitches == 2

\* the clock of the real-time component: its step and its number of steps
RtTickMs == 300
MaxRtTicks == 12
MaxRtClock == MaxRtTicks * RtTickMs

RECURSIVE Join(_, _)
\* strs.join(sep)
Join(strs, sep) ==
    IF strs = <<>> THEN ""
    ELSE IF Len(strs) = 1 THEN strs[1]
    ELSE strs[1] \o sep \o Join(Tail(strs), sep)

\* JSON.stringify of a string without quotes, backslashes or control characters
Quoted(str) == "\"" \o str \o "\""

\* mutant: the key is args.join('')
JSONStringify_joined(args) == Join(args, "")

\* JSON.stringify(args), for an array of strings
JSONStringify(args) == "[" \o Join([i \in 1..Len(args) |-> Quoted(args[i])], ",") \o "]"

\* the argument lists the wrapped function is called with
ArgLists == {<<>>, <<"123">>, <<"124">>, <<"12", "3">>, <<"1", "23">>}

\* cacheMap.has(key), the Map held as a sequence of entries
Has(map, key) == \E i \in 1..Len(map) : map[i].key = key

\* cacheMap.get(key)
MapGet(map, key) == map[CHOOSE i \in 1..Len(map) : map[i].key = key].value

InitCache ==
    /\ hookAction = "updateProfile"
    /\ state = initialState
    /\ isPending = FALSE
    /\ timers = <<>>
    /\ now = 0
    /\ nDispatched = 0
    /\ nResolved = 0
    /\ lastCall = <<>>
    /\ overlapped = FALSE
    /\ settled = {}
    /\ vSchema = <<>>
    /\ vInput = EmptyObject
    /\ vIdx = 1
    /\ vErrors = EmptyObject
    /\ vTrace = <<>>
    /\ vResult = NULL
    /\ vStart = [input |-> vInput, schema |-> vSchema]
    /\ vSeen = <<>>
    /\ vCalls = 1
    /\ posts = <<>>
    /\ optimisticState = <<>>
    /\ revertTimers = <<>>
    /\ oSubs = <<>>
    /\ oOutcomes = <<>>
    /\ oFired = 0
    /\ oLastRevert = NULL
    /\ sReturn = NULL
    /\ FormIdle
    /\ CtxIdle
    /\ cacheMap = <<>>
    /\ cCalls = <<>>
    /\ cNextId = 1
    /\ PromIdle
    /\ RtIdle

\* a call of the function cache returns: the cached result when the key is
\* in the Map, else the result of fn(...args), a promise made by this call,
\* which is stored under the key
CallCached ==
    \E args \in ArgLists :
        LET key == JSONStringify(args)
        IN /\ Len(cCalls) < MaxCacheCalls
           /\ IF Has(cacheMap, key)
              THEN /\ cCalls' = Append(cCalls, [args |-> args, invoked |-> FALSE,
                                                result |-> MapGet(cacheMap, key)])
                   /\ UNCHANGED <<cacheMap, cNextId>>
              ELSE /\ cCalls' = Append(cCalls, [args |-> args, invoked |-> TRUE,
                                                result |-> [promise |-> cNextId, args |-> args]])
                   /\ cacheMap' = Append(cacheMap, [key |-> key,
                                                   value |-> [promise |-> cNextId, args |-> args]])
                   /\ cNextId' = cNextId + 1
           /\ UNCHANGED <<simVars, valVars, optVars, sReturn, formVars, ctxVars, promVars, rtVars>>

NextCache == CallCached

SpecCache == InitCache /\ [][NextCache]_vars

\* C30: the wrapped function invokes the underlying function at most once per
\* distinct argument list and returns the identical result (the same promise)
\* on every later call with those arguments, for every interleaving of calls
\* with different arguments; calls with different serialised arguments never
\* share a result.
C30_OncePerArguments ==
    \A i, j \in 1..Len(cCalls) :
        /\ (i < j /\ cCalls[i].args = cCalls[j].args)
               => /\ ~cCalls[j].invoked
                  /\ cCalls[j].result = cCalls[i].result
        /\ cCalls[i].args # cCalls[j].args
               => cCalls[i].result.promise # cCalls[j].result.promise
        /\ cCalls[i].result.args = cCalls[i].args

\* a call was repeated after a call with other arguments
C30_Witness ==
    /\ Len(cCalls) >= 3
    /\ cCalls[1].args = cCalls[3].args
    /\ cCalls[2].args # cCalls[1].args
    /\ cCalls[2].invoked
    /\ cCalls[3].result = cCalls[1].result

-----------------------------------------------------------------------------
(* src/unnamed/part_001: usePromise / useAsyncData, called by a component    *)
(* under a Suspense boundary with the promise fetchUserData(userId)          *)

\* mockApiDelay(1000) of fetchUserData
FetchDelay == 1000

\* the userIds the caller passes
UserIds == {"123", "124", "125"}

\* Math.random() returns a double in [0, 1). The values modelled are the
\* multiples of 1 / RandomScale, a power of two: a double holds k / 1024
\* exactly, and its product with 100, 500 or 1000 too, so that Math.floor of
\* the product is the integer quotient. A value r stands for r / RandomScale.
RandomScale == 1024

\* the values Math.random() returns, as multiples of 1 / RandomScale: the
\* least and the greatest; and the draws of one call of fetchUserData, in the
\* order of the calls (posts, followers, following)
Randoms == {0, RandomScale - 1}
RandomDraws == Randoms \X Randoms \X Randoms

\* Math.floor(Math.random() * n) when Math.random() returns r / RandomScale
FloorRandom(r, n) == (r * n) \div RandomScale

\* the object fetchUserData(userId) resolves to, at time t, when Math.random
\* returns the three values of draws
UserData(userId, draws, t) ==
    [id |-> userId,
     name |-> "User " \o userId,
     email |-> "user" \o userId \o "@example.com",
     avatar |-> "https://i.pravatar.cc/150?u=" \o userId,
     joinDate |-> toISOString(t),
     stats |-> [posts |-> FloorRandom(draws[1], 100),
                followers |-> FloorRandom(draws[2], 1000),
                following |-> FloorRandom(draws[3], 500)]]

\* fetchUserData(userId) during a render at time t: the cached promise, or a
\* new one that settles FetchDelay later
WithPromise(promises, userId, t) ==
    IF userId \in DOMAIN promises THEN promises
    ELSE [k \in DOMAIN promises \cup {userId} |->
             IF k = userId THEN [status |-> "pending", due |-> t + FetchDelay, value |-> NULL]
             ELSE promises[k]]

\* useState({ status: 'pending' })
PendingState == [status |-> "pending", data |-> NULL]

\* the state a render of the hook reads: the useState value of the mounted
\* component; a component that has not been committed has no state, each of
\* its renders starts from the initial value
HookState(mounted, hookState) == IF mounted THEN hookState ELSE PendingState

\* what usePromise(promise) does in a render that reads hookState
usePromise(hookState, promise) ==
    IF hookState.status = "pending" THEN [kind |-> "suspended", promise |-> promise]
    ELSE IF hookState.status = "rejected" THEN [kind |-> "threw", error |-> hookState.data]
    ELSE [kind |-> "returned", data |-> hookState.data]

\* the state after the then or catch callback of a settled promise
SettledState(promise) ==
    [status |-> IF promise.status = "fulfilled" THEN "resolved" ELSE "rejected",
     data |-> promise.value]

InitPromise ==
    /\ hookAction = "updateProfile"
    /\ state = initialState
    /\ isPending = FALSE
    /\ timers = <<>>
    /\ now = 0
    /\ nDispatched = 0
    /\ nResolved = 0
    /\ lastCall = <<>>
    /\ overlapped = FALSE
    /\ settled = {}
    /\ vSchema = <<>>
    /\ vInput = EmptyObject
    /\ vIdx = 1
    /\ vErrors = EmptyObject
    /\ vTrace = <<>>
    /\ vResult = NULL
    /\ vStart = [input |-> vInput, schema |-> vSchema]
    /\ vSeen = <<>>
    /\ vCalls = 1
    /\ posts = <<>>
    /\ optimisticState = <<>>
    /\ revertTimers = <<>>
    /\ oSubs = <<>>
    /\ oOutcomes = <<>>
    /\ oFired = 0
    /\ oLastRevert = NULL
    /\ sReturn = NULL
    /\ FormIdle
    /\ CtxIdle
    /\ CacheIdle
    /\ pPromise = "123"
    /\ pPromises = WithPromise(<<>>, "123", 0)
    /\ pMounted = FALSE
    /\ pState = <<>>
    /\ pSubscribed = {}
    /\ pOutput = usePromise(PendingState, "123")
    /\ pSwitches = 0
    /\ RtIdle

\* mutant: a render that suspends is committed like one that returns: the
\* state of the hook is kept and its effect subscribes to the promise
RenderWith_commitsSuspended(userId, hookState, promises) ==
    LET read == IF hookState = <<>> THEN PendingState ELSE hookState
        out == usePromise(read, userId)
    IN /\ pOutput' = out
       /\ pPromises' = promises
       /\ pMounted' = TRUE
       /\ pState' = read
       /\ pSubscribed' = pSubscribed \cup {userId}

\* React renders the component with the promise of userId, hookState being
\* the hook's state as it stands: a render that throws commits nothing (no
\* state is kept, no effect runs); a render that returns is committed, and
\* its effect attaches then and catch to the promise when the promise is new
\* to it
RenderWith(userId, hookState, promises) ==
    LET read == HookState(pMounted, hookState)
        out == usePromise(read, userId)
    IN /\ pOutput' = out
       /\ pPromises' = promises
       /\ IF out.kind = "returned"
          THEN /\ pMounted' = TRUE
               /\ pState' = read
               /\ pSubscribed' = pSubscribed \cup {userId}
          ELSE /\ pMounted' = pMounted
               /\ pState' = IF pMounted THEN hookState ELSE <<>>
               /\ pSubscribed' = pSubscribed

\* the timer of mockApiDelay fires for a promise: fetchUserData returns and
\* the promise is fulfilled (a promise of another source may be rejected);
\* the callbacks an effect attached set the state, React's own listener
\* renders the suspended component again
PromiseSettle ==
    \E userId \in DOMAIN pPromises, outcome \in {"fulfilled", "rejected"}, draws \in RandomDraws :
        /\ pPromises[userId].status = "pending"
        /\ pPromises[userId].due <= now
        /\ outcome = "rejected" => draws = <<0, 0, 0>>
        /\ LET value == IF outcome = "fulfilled" THEN UserData(userId, draws, now)
                        ELSE [message |-> "failed"]
               settledPromise == [status |-> outcome, due |-> pPromises[userId].due,
                                  value |-> Some(value)]
               promises == [pPromises EXCEPT ![userId] = settledPromise]
               hookState == IF pMounted /\ userId \in pSubscribed
                            THEN SettledState(settledPromise) ELSE pState
           IN RenderWith(pPromise, hookState, promises)
        /\ UNCHANGED <<pPromise, pSwitches>>
        /\ UNCHANGED <<simVars, valVars, optVars, sReturn, formVars, ctxVars, cacheVars, rtVars>>

\* the caller passes the promise of another userId and the component is
\* rendered with it
SwitchPromise ==
    \E userId \in UserIds \ {pPromise} :
        /\ now + FetchDelay <= MaxClock
        /\ pPromise' = userId
        /\ pSwitches' = pSwitches + 1
        /\ pSwitches < MaxSwitches
        /\ RenderWith(userId, pState, WithPromise(pPromises, userId, now))
        /\ UNCHANGED <<simVars, valVars, optVars, sReturn, formVars, ctxVars, cacheVars, rtVars>>

NextPromise == Tick \/ PromiseSettle \/ SwitchPromise

SpecPromise == InitPromise /\ [][NextPromise]_vars

\* time passes and the timers fire
FairSpecPromise == SpecPromise /\ WF_vars(Tick) /\ WF_vars(PromiseSettle)

\* the promise of userId exists and has the given status
PromiseIs(userId, status) ==
    userId \in DOMAIN pPromises /\ pPromises[userId].status = status

\* C22: the component suspends while the promise is unresolved; once the
\* promise passed to it has fulfilled it eventually renders with the fulfilled
\* value, and a rejected promise surfaces as a thrown error, not as data.
C22_RendersOnceFulfilled ==
    /\ [](PromiseIs(pPromise, "pending") => pOutput.kind = "suspended")
    /\ [](PromiseIs(pPromise, "rejected") => pOutput.kind # "returned")
    /\ \A userId \in UserIds :
           (pPromise = userId /\ PromiseIs(userId, "fulfilled"))
               ~> \/ pPromise # userId
                  \/ pOutput = [kind |-> "returned", data |-> pPromises[userId].value]
    /\ \A userId \in UserIds :
           (pPromise = userId /\ PromiseIs(userId, "rejected"))
               ~> \/ pPromise # userId
                  \/ pOutput = [kind |-> "threw", error |-> pPromises[userId].value]

\* C28: the value usePromise returns belongs to the promise currently passed:
\* the hook only ever returns the value of the promise it is given, so after
\* the caller has switched to another promise it never returns the data of an
\* earlier promise, and it reports pending (it suspends) for as long as the
\* new promise has not settled.
C28_ValueOfCurrentPromise ==
    /\ pOutput.kind = "returned" => pOutput.data = pPromises[pPromise].value
    /\ pSwitches > 0 /\ PromiseIs(pPromise, "pending")
          => pOutput = [kind |-> "suspended", promise |-> pPromise]

\* the caller has switched away from a promise that has fulfilled, and the
\* hook suspends on the new promise, which is still pending
C28_Witness ==
    /\ pSwitches > 0
    /\ \E userId \in DOMAIN pPromises \ {pPromise} : PromiseIs(userId, "fulfilled")
    /\ PromiseIs(pPromise, "pending")
    /\ pOutput = [kind |-> "suspended", promise |-> pPromise]

-----------------------------------------------------------------------------
(* src/unnamed/part_001: useRealTimeData, called as RealTimeDemo calls it    *)

\* useRealTimeData('/api/metrics', isActive ? 3000 : 0)
RefreshInterval == 3000

\* mockApiDelay(300) of the interval callback
RefreshDelay == 300

\* Math.floor(Math.random() * 100), two of its values
RtValues == {7, 42}

\* the object setData and useState are given, made at time t
RealTimeData(value, t) ==
    [endpoint |-> "/api/metrics",
     data |-> "Real-time data from " \o "/api/metrics",
     timestamp |-> toISOString(t),
     value |-> value]

\* the effect of a render with the given interval, at time t: no timer when
\* the interval is 0, else setInterval(..., interval)
EffectTimer(interval, t) == IF interval = 0 THEN NULL ELSE Some(t + interval)

InitRealTime ==
    /\ hookAction = "updateProfile"
    /\ state = initialState
    /\ isPending = FALSE
    /\ timers = <<>>
    /\ now = 0
    /\ nDispatched = 0
    /\ nResolved = 0
    /\ lastCall = <<>>
    /\ overlapped = FALSE
    /\ settled = {}
    /\ vSchema = <<>>
    /\ vInput = EmptyObject
    /\ vIdx = 1
    /\ vErrors = EmptyObject
    /\ vTrace = <<>>
    /\ vResult = NULL
    /\ vStart = [input |-> vInput, schema |-> vSchema]
    /\ vSeen = <<>>
    /\ vCalls = 1
    /\ posts = <<>>
    /\ optimisticState = <<>>
    /\ revertTimers = <<>>
    /\ oSubs = <<>>
    /\ oOutcomes = <<>>
    /\ oFired = 0
    /\ oLastRevert = NULL
    /\ sReturn = NULL
    /\ FormIdle
    /\ CtxIdle
    /\ CacheIdle
    /\ PromIdle
    /\ rtNow = 0
    /\ rtInterval = RefreshInterval
    /\ rtMounted = TRUE
    /\ rtTimer = EffectTimer(RefreshInterval, 0)
    /\ rtPending = <<>>
    /\ rtData \in {RealTimeData(value, 0) : value \in RtValues}
    /\ rtFrozen = NULL

RtTick ==
    /\ rtNow + RtTickMs <= MaxRtClock
    /\ rtNow' = rtNow + RtTickMs
    /\ UNCHANGED <<rtInterval, rtMounted, rtTimer, rtPending, rtData, rtFrozen>>
    /\ UNCHANGED <<simVars, valVars, optVars, sReturn, formVars, ctxVars, cacheVars, promVars>>

\* the interval timer fires: the async callback starts and waits on
\* mockApiDelay(300); the timer stays armed for the next interval
IntervalFire ==
    /\ rtTimer # NULL
    /\ Get(rtTimer) <= rtNow
    /\ rtPending' = Append(rtPending, rtNow + RefreshDelay)
    /\ rtTimer' = Some(Get(rtTimer) + rtInterval)
    /\ UNCHANGED <<rtNow, rtInterval, rtMounted, rtData, rtFrozen>>
    /\ UNCHANGED <<simVars, valVars, optVars, sReturn, formVars, ctxVars, cacheVars, promVars>>

\* the data after a callback's setData at time t: the state of a mounted
\* component is replaced, an unmounted component has no state to set
RefreshedData(data, mounted, interval, value, t) ==
    IF mounted THEN RealTimeData(value, t) ELSE data

\* the delay of the oldest waiting callback is over: setData({...})
RefreshDone ==
    \E value \in RtValues :
        /\ rtPending # <<>>
        /\ Head(rtPending) <= rtNow
        /\ rtData' = RefreshedData(rtData, rtMounted, rtInterval, value, rtNow)
        /\ rtPending' = Tail(rtPending)
        /\ UNCHANGED <<rtNow, rtInterval, rtMounted, rtTimer, rtFrozen>>
        /\ UNCHANGED <<simVars, valVars, optVars, sReturn, formVars, ctxVars, cacheVars, promVars>>

\* the switch of RealTimeDemo: setIsActive(checked); the hook is rendered
\* with the other interval, the cleanup of the old effect clears its timer
\* and the new effect runs
SetActive ==
    /\ rtMounted
    /\ LET interval == IF rtInterval = 0 THEN RefreshInterval ELSE 0
       IN /\ rtInterval' = interval
          /\ rtTimer' = EffectTimer(interval, rtNow)
          /\ rtFrozen' = IF interval = 0 THEN Some(rtData) ELSE NULL
    /\ UNCHANGED <<rtNow, rtMounted, rtPending, rtData>>
    /\ UNCHANGED <<simVars, valVars, optVars, sReturn, formVars, ctxVars, cacheVars, promVars>>

\* the component is unmounted: the cleanup of the effect clears the timer
RtUnmount ==
    /\ rtMounted
    /\ rtMounted' = FALSE
    /\ rtTimer' = NULL
    /\ rtFrozen' = Some(rtData)
    /\ UNCHANGED <<rtNow, rtInterval, rtPending, rtData>>
    /\ UNCHANGED <<simVars, valVars, optVars, sReturn, formVars, ctxVars, cacheVars, promVars>>

NextRealTime == RtTick \/ IntervalFire \/ RefreshDone \/ SetActive \/ RtUnmount

SpecRealTime == InitRealTime /\ [][NextRealTime]_vars

\* C23: after the interval is switched to 0 or the component is unmounted,
\* the interval timer is cleared and the returned data is never updated
\* again, even when a refresh callback was waiting on its 300 ms delay at the
\* moment of pausing.
C23_NoRefreshOncePaused ==
    /\ (rtInterval = 0 \/ ~rtMounted) => rtTimer = NULL
    /\ rtFrozen # NULL => rtData = Get(rtFrozen)

====
